---- MODULE Spec2Model ----
(***************************************************************************)
(* State-machine model of the finance-tracker command line tool.           *)
(*                                                                         *)
(* The state is the SQLite store (the set of existing tables, the rows of  *)
(* the four tables, the AUTOINCREMENT counters kept in sqlite_sequence)    *)
(* and the outcome of the last command (exit code and what it printed).    *)
(* One action per CLI command; a command of a group that has a typer       *)
(* callback runs create_tables() first, as typer does.                     *)
(*                                                                         *)
(* Amounts are REAL columns in the program; they are modelled as exact     *)
(* integers (cents).  A date the user types, "DD-MM-YYYY", is the tuple    *)
(* <<d, m, y>>; the text the program stores, "YYYY-MM-DD", is the tuple    *)
(* <<y, m, d>>, whose lexicographic order is the order of the stored text. *)
(***************************************************************************)
EXTENDS Integers, Sequences, FiniteSets

VARIABLES
    tables,                \* names of the tables that exist in finances.db
    budget_items,          \* rows of table budget_items
    transactions,          \* rows of table transactions
    targets_items,         \* rows of table targets_items
    investment_snapshots,  \* rows of table investment_snapshots
    seq,                   \* sqlite_sequence: table name -> last AUTOINCREMENT id
    out                    \* outcome of the last command

vars == <<tables, budget_items, transactions, targets_items,
          investment_snapshots, seq, out>>

store == <<budget_items, transactions, targets_items, investment_snapshots>>

-----------------------------------------------------------------------------
(* Bounds of the model: how many rows each table's AUTOINCREMENT counter   *)
(* may hand out.  MaxRows bounds the specification with every command;     *)
(* the others bound the specifications that focus on one group.            *)

MaxRows == 1
MaxTransactions == 2
MaxBudgetItems == 2
MaxSummaryItems == 3
MaxSnapshots == 2
MaxTargets == 2

-----------------------------------------------------------------------------
(* Enumerations and fixed strings of the program                           *)

BudgetType == {"Income", "Expense", "Savings"}

TransactionType == {"Income", "Expense", "Transfer", "Savings"}

SchemaTables ==
    {"budget_items", "transactions", "targets_items", "investment_snapshots"}

\* The category names used by the model, in Python's string order
\* (sorted() compares code points: "Cash" < "Food" < "Rent").
CategoryOrder == <<"Cash", "Food", "Rent">>

-----------------------------------------------------------------------------
(* Pure helpers                                                            *)

abs(x) == IF x < 0 THEN -x ELSE x

RECURSIVE SumAmounts(_)
SumAmounts(rows) ==
    IF rows = {} THEN 0
    ELSE LET r == CHOOSE x \in rows : TRUE
         IN  r.amount + SumAmounts(rows \ {r})

\* SQL SUM(amount): NULL (here <<>>) over no rows, else <<the sum>>.
SqlSum(rows) == IF rows = {} THEN <<>> ELSE <<SumAmounts(rows)>>

\* Python's "x or 0.0" applied to a fetched SUM: None and 0.0 both give 0.0.
OrZero(x) == IF x = <<>> THEN 0 ELSE x[1]

IsLeap(y) == (y % 4 = 0 /\ y % 100 # 0) \/ y % 400 = 0

DaysInMonth(m, y) ==
    IF m = 2 THEN (IF IsLeap(y) THEN 29 ELSE 28)
    ELSE IF m \in {4, 6, 9, 11} THEN 30 ELSE 31

\* A parser that takes any day from 1 to 31 in any month
ValidDateAnyDay(date) ==
    /\ date[2] \in 1..12
    /\ date[3] \in 1..9999
    /\ date[1] \in 1..31

\* datetime.strptime(date, "%d-%m-%Y") succeeds
ValidDate(date) ==
    /\ date[2] \in 1..12
    /\ date[3] \in 1..9999
    /\ date[1] \in 1..DaysInMonth(date[2], date[3])

\* .strftime("%Y-%m-%d"): day-month-year becomes year-month-day
ParseDate(date) == <<date[3], date[2], date[1]>>

\* strptime(stored, "%Y-%m-%d").strftime("%d-%m-%Y"), for display
DisplayDate(stored) == <<stored[3], stored[2], stored[1]>>

\* CAST(SUBSTR(date, 6, 2) AS INTEGER) and CAST(SUBSTR(date, 1, 4) AS INTEGER)
DateMonth(stored) == stored[2]
DateYear(stored) == stored[1]

\* Order of two stored "YYYY-MM-DD" texts
DateLess(a, b) ==
    \/ a[1] < b[1]
    \/ a[1] = b[1] /\ a[2] < b[2]
    \/ a[1] = b[1] /\ a[2] = b[2] /\ a[3] < b[3]

\* sorted(list(cats)) for category names
Sorted(cats) == SelectSeq(CategoryOrder, LAMBDA c : c \in cats)

-----------------------------------------------------------------------------
(* The outcome of a command                                                *)

Out0 ==
    [cmd |-> "none", exit |-> 0, msg |-> "",
     id |-> 0, type |-> "", category |-> "", amount |-> 0,
     month |-> 0, year |-> 0, date |-> <<>>,
     rows |-> <<>>, total_budgeted |-> 0, total_actual |-> 0, overall |-> 0,
     total_savings |-> 0, investment_amount |-> 0, investment_date |-> <<>>,
     net_worth |-> 0,
     items |-> {}, total_by_type |-> [t \in BudgetType |-> 0], surplus |-> 0,
     listed |-> <<>>, total_amount |-> 0]

-----------------------------------------------------------------------------
(* database.py                                                             *)

\* create_tables(): DROP TABLE IF EXISTS budget, then four
\* CREATE TABLE IF NOT EXISTS; rows of existing tables are not touched.
create_tables(t) == (t \ {"budget"}) \cup SchemaTables

\* The rowid of a table without AUTOINCREMENT: one more than the largest
\* id among the rows the table holds now
NextIdAfterLargestRow(table) ==
    LET rows == CASE table = "budget_items" -> budget_items
                  [] table = "transactions" -> transactions
                  [] table = "targets_items" -> targets_items
                  [] OTHER -> investment_snapshots
    IN  IF rows = {} THEN 1
        ELSE (CHOOSE r \in rows : \A o \in rows : o.id <= r.id).id + 1

\* AUTOINCREMENT: the next id of a table
NextId(table) == seq[table] + 1

Init ==
    /\ tables = {}
    /\ budget_items = {}
    /\ transactions = {}
    /\ targets_items = {}
    /\ investment_snapshots = {}
    /\ seq = [t \in SchemaTables |-> 0]
    /\ out = Out0

-----------------------------------------------------------------------------
(* apps/transactions.py                                                    *)

\* "if type == TransactionType.EXPENSE: amount = -amount"
StoredAmount(type, amount) == IF type = "Expense" THEN -amount ELSE amount

\* transactions add <amount> <type> <category> <account> <date> [description]
add_transaction(amount, type, category, account, date, description) ==
    /\ tables' = create_tables(tables)
    /\ IF ~ValidDate(date)
       THEN /\ out' = [Out0 EXCEPT !.cmd = "transactions add", !.exit = 1,
                                   !.msg = "Invalid date format",
                                   !.date = date]
            /\ UNCHANGED <<transactions, seq>>
       ELSE LET row == [id |-> NextId("transactions"),
                        date |-> ParseDate(date),
                        description |-> description,
                        amount |-> StoredAmount(type, amount),
                        type |-> type,
                        category |-> category,
                        account |-> account]
            IN  /\ transactions' = transactions \cup {row}
                /\ seq' = [seq EXCEPT !["transactions"] = row.id]
                /\ out' = [Out0 EXCEPT !.cmd = "transactions add",
                                       !.msg = "Added transaction",
                                       !.type = type,
                                       !.category = category,
                                       !.amount = row.amount, !.date = date]
    /\ UNCHANGED <<budget_items, targets_items, investment_snapshots>>

\* A DELETE whose WHERE clause is missing
delete_every_transaction(transaction_id) ==
    /\ tables' = create_tables(tables)
    /\ transactions' = {}
    /\ out' = [Out0 EXCEPT !.cmd = "transactions delete",
                           !.msg = "Deleted transaction",
                           !.id = transaction_id]
    /\ UNCHANGED <<budget_items, targets_items, investment_snapshots, seq>>

\* transactions delete <id>
delete_transaction(transaction_id) ==
    /\ tables' = create_tables(tables)
    /\ transactions' = {t \in transactions : t.id # transaction_id}
    /\ out' = [Out0 EXCEPT !.cmd = "transactions delete",
                           !.msg = "Deleted transaction",
                           !.id = transaction_id]
    /\ UNCHANGED <<budget_items, targets_items, investment_snapshots, seq>>

\* ORDER BY date DESC, id DESC: the ids of rows, first row first
RECURSIVE OrderByDateDescIdDesc(_)
OrderByDateDescIdDesc(rows) ==
    IF rows = {} THEN <<>>
    ELSE LET first == CHOOSE r \in rows : \A o \in rows \ {r} :
                          \/ DateLess(o.date, r.date)
                          \/ o.date = r.date /\ o.id < r.id
         IN  <<first.id>> \o OrderByDateDescIdDesc(rows \ {first})

\* transactions summarize [--month] [--year] [--type] [--category] [--account]
\* An option that is not given (None) is the empty string here; month and
\* year default to today's, which the caller of the action supplies.
summarize_transactions(month, year, type, category, account) ==
    LET found == {t \in transactions :
                    /\ DateMonth(t.date) = month
                    /\ DateYear(t.date) = year
                    /\ (type # "" => t.type = type)
                    /\ (category # "" => t.category = category)
                    /\ (account # "" => t.account = account)}
    IN  /\ tables' = create_tables(tables)
        /\ out' = IF found = {}
                  THEN [Out0 EXCEPT !.cmd = "transactions summarize",
                                    !.msg = "No transactions found",
                                    !.month = month, !.year = year]
                  ELSE [Out0 EXCEPT !.cmd = "transactions summarize",
                                    !.msg = "Transactions Summary",
                                    !.month = month, !.year = year,
                                    !.listed = OrderByDateDescIdDesc(found),
                                    !.total_amount = SumAmounts(found)]
        /\ UNCHANGED <<budget_items, transactions, targets_items,
                       investment_snapshots, seq>>

-----------------------------------------------------------------------------
(* apps/budget.py                                                          *)

SameKey(a, b) ==
    /\ a.type = b.type
    /\ a.category = b.category
    /\ a.month = b.month
    /\ a.year = b.year

\* A plain INSERT that were let through although the key is taken
InsertKeepingOld(rows, row) == rows \cup {row}

\* INSERT OR REPLACE under UNIQUE(type, category, month, year): the rows
\* that conflict with the new row are deleted, then it is inserted.
InsertOrReplace(rows, row) ==
    {r \in rows : ~SameKey(r, row) /\ r.id # row.id} \cup {row}

\* budget update <type> <category> <amount> [--month] [--year]
update(type, category, amount, month, year) ==
    LET row == [id |-> NextId("budget_items"), type |-> type,
                category |-> category, month |-> month, year |-> year,
                amount |-> amount]
    IN  /\ tables' = create_tables(tables)
        /\ budget_items' = InsertOrReplace(budget_items, row)
        /\ seq' = [seq EXCEPT !["budget_items"] = row.id]
        /\ out' = [Out0 EXCEPT !.cmd = "budget update", !.msg = "set to",
                               !.type = type,
                               !.category = category, !.amount = amount,
                               !.month = month, !.year = year]
        /\ UNCHANGED <<transactions, targets_items, investment_snapshots>>

\* budget delete <type> <category> [--month] [--year]
delete(type, category, month, year) ==
    /\ tables' = create_tables(tables)
    /\ budget_items' = {b \in budget_items :
                          ~(/\ b.type = type /\ b.category = category
                            /\ b.month = month /\ b.year = year)}
    /\ out' = [Out0 EXCEPT !.cmd = "budget delete", !.msg = "Deleted",
                           !.type = type, !.category = category,
                           !.month = month, !.year = year]
    /\ UNCHANGED <<transactions, targets_items, investment_snapshots, seq>>

\* A surplus that counts the savings as income
SurplusAddingSavings(total_by_type) ==
    total_by_type["Income"] - total_by_type["Expense"]
        + total_by_type["Savings"]

\* "surplus = Income - Expense - Savings"
Surplus(total_by_type) ==
    total_by_type["Income"] - total_by_type["Expense"]
        - total_by_type["Savings"]

\* A summarize whose callback dropped budget_items, not the old budget table
summarize_dropping(month, year) ==
    /\ tables' = create_tables(tables)
    /\ budget_items' = {}
    /\ out' = [Out0 EXCEPT !.cmd = "budget summarize",
                           !.msg = "No budget items found",
                           !.month = month, !.year = year]
    /\ UNCHANGED <<transactions, targets_items, investment_snapshots, seq>>

\* budget summarize [--month] [--year]
summarize(month, year) ==
    LET found == {b \in budget_items : b.month = month /\ b.year = year}
        total_by_type ==
            [t \in BudgetType |-> SumAmounts({b \in found : b.type = t})]
        surplus == Surplus(total_by_type)
    IN  /\ tables' = create_tables(tables)
        /\ out' = IF found = {}
                  THEN [Out0 EXCEPT !.cmd = "budget summarize",
                                    !.msg = "No budget items found",
                                    !.month = month, !.year = year]
                  ELSE [Out0 EXCEPT !.cmd = "budget summarize",
                                    !.msg = IF surplus >= 0 THEN "Surplus"
                                            ELSE "Deficit",
                                    !.month = month, !.year = year,
                                    !.items = {[type |-> b.type,
                                                category |-> b.category,
                                                amount |-> b.amount] :
                                               b \in found},
                                    !.total_by_type = total_by_type,
                                    !.surplus = surplus]
        /\ UNCHANGED <<budget_items, transactions, targets_items,
                       investment_snapshots, seq>>

-----------------------------------------------------------------------------
(* apps/targets.py                                                         *)

\* targets add <name> <price> [--priority]
add_target(item_name, price, priority) ==
    LET row == [id |-> NextId("targets_items"), item_name |-> item_name,
                price |-> price, priority |-> priority, purchased |-> 0]
    IN  /\ tables' = create_tables(tables)
        /\ targets_items' = targets_items \cup {row}
        /\ seq' = [seq EXCEPT !["targets_items"] = row.id]
        /\ out' = [Out0 EXCEPT !.cmd = "targets add", !.msg = "Added",
                               !.amount = price]
        /\ UNCHANGED <<budget_items, transactions, investment_snapshots>>

\* ORDER BY priority ASC, id ASC: the ids of rows, first row first
RECURSIVE OrderByPriorityId(_)
OrderByPriorityId(rows) ==
    IF rows = {} THEN <<>>
    ELSE LET first == CHOOSE r \in rows : \A o \in rows \ {r} :
                          \/ r.priority < o.priority
                          \/ r.priority = o.priority /\ r.id < o.id
         IN  <<first.id>> \o OrderByPriorityId(rows \ {first})

\* targets list [--all]
list_targets(all) ==
    LET items == IF all THEN targets_items
                 ELSE {t \in targets_items : t.purchased = 0}
    IN  /\ tables' = create_tables(tables)
        /\ out' = IF items = {}
                  THEN [Out0 EXCEPT !.cmd = "targets list",
                                    !.msg = "No financial targets found"]
                  ELSE [Out0 EXCEPT !.cmd = "targets list",
                                    !.msg = "Financial Targets",
                                    !.listed = OrderByPriorityId(items)]
        /\ UNCHANGED <<budget_items, transactions, targets_items,
                       investment_snapshots, seq>>

\* cursor.rowcount of an UPDATE or DELETE ... WHERE id = ?
RowCount(rows, id) == Cardinality({r \in rows : r.id = id})

\* An update that flips the flag
TogglePurchased(t) == [t EXCEPT !.purchased = 1 - t.purchased]

\* UPDATE targets_items SET purchased = 1
MarkPurchased(t) == [t EXCEPT !.purchased = 1]

\* targets achieve <id>
achieve_target(item_id) ==
    /\ tables' = create_tables(tables)
    /\ targets_items' = {IF t.id = item_id THEN MarkPurchased(t)
                         ELSE t : t \in targets_items}
    /\ out' = [Out0 EXCEPT !.cmd = "targets achieve", !.id = item_id,
                           !.msg = IF RowCount(targets_items, item_id) # 0
                                   THEN "marked as achieved"
                                   ELSE "not found"]
    /\ UNCHANGED <<budget_items, transactions, investment_snapshots, seq>>

\* targets delete <id>
delete_target(item_id) ==
    /\ tables' = create_tables(tables)
    /\ targets_items' = {t \in targets_items : t.id # item_id}
    /\ out' = [Out0 EXCEPT !.cmd = "targets delete", !.id = item_id,
                           !.msg = IF RowCount(targets_items, item_id) # 0
                                   THEN "deleted"
                                   ELSE "not found"]
    /\ UNCHANGED <<budget_items, transactions, investment_snapshots, seq>>

-----------------------------------------------------------------------------
(* apps/networth.py                                                        *)

\* A plain INSERT that keeps the old snapshot of the date
InsertSnapshotKeepingOld(rows, row) == rows \cup {row}

\* INSERT OR REPLACE under snapshot_date UNIQUE
InsertOrReplaceSnapshot(rows, row) ==
    {r \in rows : r.snapshot_date # row.snapshot_date /\ r.id # row.id}
        \cup {row}

\* networth update-investment <amount> [--date]
update_investment(amount, date) ==
    /\ tables' = create_tables(tables)
    /\ IF ~ValidDate(date)
       THEN /\ out' = [Out0 EXCEPT !.cmd = "networth update-investment",
                                   !.exit = 1, !.msg = "Invalid date format",
                                   !.date = date]
            /\ UNCHANGED <<investment_snapshots, seq>>
       ELSE LET row == [id |-> NextId("investment_snapshots"),
                        snapshot_date |-> ParseDate(date),
                        amount |-> amount]
            IN  /\ investment_snapshots' =
                       InsertOrReplaceSnapshot(investment_snapshots, row)
                /\ seq' = [seq EXCEPT !["investment_snapshots"] = row.id]
                /\ out' = [Out0 EXCEPT !.cmd = "networth update-investment",
                                       !.msg = "Investment snapshot updated",
                                       !.amount = amount, !.date = date]
    /\ UNCHANGED <<budget_items, transactions, targets_items>>

\* The last entered snapshot instead of the latest dated one
LastEnteredSnapshot(rows) ==
    IF rows = {} THEN <<>>
    ELSE <<CHOOSE r \in rows : \A o \in rows : o.id <= r.id>>

\* SELECT amount, snapshot_date FROM investment_snapshots
\* ORDER BY snapshot_date DESC LIMIT 1; fetchone(): None (here <<>>) or a row
LatestInvestment(rows) ==
    IF rows = {} THEN <<>>
    ELSE <<CHOOSE r \in rows : \A o \in rows \ {r} :
               DateLess(o.snapshot_date, r.snapshot_date)>>

\* SELECT SUM(amount) FROM transactions WHERE type = 'Savings' AND
\* category = 'Cash'; "cursor.fetchone()[0] or 0.0"
TotalSavings(rows) ==
    OrZero(SqlSum({t \in rows : t.type = "Savings" /\ t.category = "Cash"}))

\* A version that reads the fetched row without testing it for None
InvestmentPartUnchecked(latest) ==
    IF latest = <<>>
    THEN [exit |-> 1, msg |-> "TypeError", amount |-> 0, date |-> <<>>]
    ELSE [exit |-> 0, msg |-> "Latest Investment Snapshot",
          amount |-> latest[1].amount,
          date |-> DisplayDate(latest[1].snapshot_date)]

\* "investment_amount = 0.0 ... if latest_investment: ... else: ..."
InvestmentPart(latest) ==
    IF latest # <<>>
    THEN [exit |-> 0, msg |-> "Latest Investment Snapshot",
          amount |-> latest[1].amount,
          date |-> DisplayDate(latest[1].snapshot_date)]
    ELSE [exit |-> 0, msg |-> "No investment snapshots found",
          amount |-> 0, date |-> <<>>]

\* networth show
show_net_worth ==
    LET total_savings == TotalSavings(transactions)
        inv == InvestmentPart(LatestInvestment(investment_snapshots))
    IN  /\ tables' = create_tables(tables)
        /\ out' = [Out0 EXCEPT !.cmd = "networth show", !.exit = inv.exit,
                               !.msg = inv.msg,
                               !.total_savings = total_savings,
                               !.investment_amount = inv.amount,
                               !.investment_date = inv.date,
                               !.net_worth = total_savings + inv.amount]
        /\ UNCHANGED <<budget_items, transactions, targets_items,
                       investment_snapshots, seq>>

-----------------------------------------------------------------------------
(* apps/reports.py                                                         *)

\* Budget rows of type Expense of a month (compare_expenses, query 1)
BudgetedRowsMonth(month, year) ==
    {b \in budget_items :
        b.type = "Expense" /\ b.month = month /\ b.year = year}

\* Budget rows of type Expense of a year (accumulated_expenses, query 1)
BudgetedRowsYear(year) ==
    {b \in budget_items : b.type = "Expense" /\ b.year = year}

\* Expense transactions of a month (compare_expenses, query 2)
ActualRowsMonth(month, year) ==
    {t \in transactions :
        /\ t.type = "Expense"
        /\ DateMonth(t.date) = month
        /\ DateYear(t.date) = year}

\* Expense transactions of a year (accumulated_expenses, query 2)
ActualRowsYear(year) ==
    {t \in transactions : t.type = "Expense" /\ DateYear(t.date) = year}

\* {row["category"]: row["amount"] for row in cursor.fetchall()}
AmountPerCategory(rows) ==
    [c \in {r.category : r \in rows} |->
        (CHOOSE r \in rows : r.category = c).amount]

\* SELECT category, SUM(amount) ... GROUP BY category, as a dict
SumPerCategory(rows) ==
    [c \in {r.category : r \in rows} |->
        SqlSum({r \in rows : r.category = c})[1]]

\* {row["category"]: abs(row["SUM(amount)"]) for row in cursor.fetchall()}
AbsSumPerCategory(rows) ==
    [c \in {r.category : r \in rows} |->
        abs(SqlSum({r \in rows : r.category = c})[1])]

\* The budgeted categories alone
BudgetedCategoriesOnly(budgeted, actual) == Sorted(DOMAIN budgeted)

\* sorted(list(set(budgeted.keys()) | set(actual.keys())))
AllCategories(budgeted, actual) ==
    Sorted(DOMAIN budgeted \cup DOMAIN actual)

\* dict.get(category, 0.0)
Get(d, k) == IF k \in DOMAIN d THEN d[k] ELSE 0

\* The difference taken the other way round
DifferenceSwapped(budgeted, actual) == actual - budgeted

\* "difference = budgeted - actual"
Difference(budgeted, actual) == budgeted - actual

\* total_budgeted / total_actual as the loop accumulates them over the rows
RECURSIVE TotalBudgeted(_)
TotalBudgeted(rows) ==
    IF rows = <<>> THEN 0
    ELSE TotalBudgeted(SubSeq(rows, 1, Len(rows) - 1)) + rows[Len(rows)].budgeted

RECURSIVE TotalActual(_)
TotalActual(rows) ==
    IF rows = <<>> THEN 0
    ELSE TotalActual(SubSeq(rows, 1, Len(rows) - 1)) + rows[Len(rows)].actual

\* Everything after conn.close() in compare_expenses and in
\* accumulated_expenses, which is the same code: max() of no category
\* raises ValueError before anything of the table is printed.
Report(cmd, month, year, budgeted, actual) ==
    LET all_categories == AllCategories(budgeted, actual)
        rows == [i \in 1..Len(all_categories) |->
                    [category |-> all_categories[i],
                     budgeted |-> Get(budgeted, all_categories[i]),
                     actual |-> Get(actual, all_categories[i]),
                     difference |-> Difference(Get(budgeted, all_categories[i]),
                                               Get(actual, all_categories[i]))]]
        total_budgeted == TotalBudgeted(rows)
        total_actual == TotalActual(rows)
        overall_difference == total_budgeted - total_actual
    IN  IF all_categories = <<>>
        THEN [Out0 EXCEPT !.cmd = cmd, !.exit = 1, !.msg = "ValueError",
                          !.month = month, !.year = year]
        ELSE [Out0 EXCEPT !.cmd = cmd, !.month = month, !.year = year,
                          !.rows = rows,
                          !.total_budgeted = total_budgeted,
                          !.total_actual = total_actual,
                          !.overall = overall_difference,
                          !.msg = IF overall_difference >= 0
                                  THEN "under budget" ELSE "over budget"]

\* A query on a table that does not exist raises sqlite3.OperationalError
NoSuchTable(cmd, month, year) ==
    [Out0 EXCEPT !.cmd = cmd, !.exit = 1, !.msg = "OperationalError",
                 !.month = month, !.year = year]

\* reports month [--month] [--year]; reports_app has no callback, so
\* create_tables() is not run.
compare_expenses(month, year) ==
    /\ out' = IF "budget_items" \notin tables
              THEN NoSuchTable("reports month", month, year)
              ELSE Report("reports month", month, year,
                          AmountPerCategory(BudgetedRowsMonth(month, year)),
                          AbsSumPerCategory(ActualRowsMonth(month, year)))
    /\ UNCHANGED <<tables, budget_items, transactions, targets_items,
                   investment_snapshots, seq>>

\* reports accumulated [--year]
accumulated_expenses(year) ==
    /\ out' = IF "budget_items" \notin tables
              THEN NoSuchTable("reports accumulated", 0, year)
              ELSE Report("reports accumulated", 0, year,
                          SumPerCategory(BudgetedRowsYear(year)),
                          AbsSumPerCategory(ActualRowsYear(year)))
    /\ UNCHANGED <<tables, budget_items, transactions, targets_items,
                   investment_snapshots, seq>>

-----------------------------------------------------------------------------
(* Inputs of the commands, drawn from small sets                           *)

June15 == <<15, 6, 2024>>
July2 == <<2, 7, 2024>>
LastJune == <<15, 6, 2023>>
May30 == <<30, 5, 2024>>
Jan2Next == <<2, 1, 2025>>
Feb31 == <<31, 2, 2024>>       \* not a calendar date

Months == {6, 7}
Years == {2023, 2024}

\* <<amount, type, category, date>> of transactions add
TxnInputs ==
    {<<5, "Expense", "Food", June15>>,
     <<7, "Savings", "Cash", June15>>,
     <<5, "Expense", "Food", Feb31>>}

ReportTxnInputs ==
    {<<5, "Expense", "Food", June15>>,
     <<-3, "Expense", "Food", June15>>,
     <<5, "Expense", "Rent", July2>>,
     <<2, "Income", "Food", June15>>,
     <<4, "Expense", "Food", LastJune>>,
     <<5, "Expense", "Food", Feb31>>}

NetworthTxnInputs ==
    {<<7, "Savings", "Cash", June15>>,
     <<-2, "Savings", "Cash", July2>>,
     <<5, "Savings", "Food", June15>>,
     <<5, "Expense", "Cash", June15>>}

\* <<type, category, amount, month, year>> of budget update
BudgetInputs ==
    {<<"Expense", "Food", 4, 6, 2024>>,
     <<"Income", "Cash", 9, 6, 2024>>}

ReportBudgetInputs ==
    {<<"Expense", "Food", 4, 6, 2024>>,
     <<"Expense", "Food", 10, 6, 2024>>,
     <<"Expense", "Food", 3, 7, 2024>>,
     <<"Expense", "Cash", 6, 6, 2024>>,
     <<"Income", "Food", 9, 6, 2024>>}

SummaryBudgetInputs ==
    ReportBudgetInputs \cup {<<"Savings", "Cash", 2, 6, 2024>>}

\* <<item_name, price, priority>> of targets add
TargetInputs == {<<"Bike", 50, 1>>, <<"Desk", 20, 7>>}

\* <<amount, date>> of networth update-investment
SnapshotInputs == {<<100, June15>>, <<80, Feb31>>}

NetworthSnapshotInputs ==
    {<<100, June15>>, <<80, June15>>, <<60, May30>>, <<40, Jan2Next>>,
     <<80, Feb31>>}

-----------------------------------------------------------------------------
(* Specifications                                                          *)

\* Every command of every group.
Next ==
    \/ \E i \in TxnInputs :
          /\ seq["transactions"] < MaxRows
          /\ add_transaction(i[1], i[2], i[3], "Bank", i[4], "")
    \/ \E id \in 1..(MaxRows + 1) : delete_transaction(id)
    \/ \E m \in Months, ty \in {"", "Expense"} :
          summarize_transactions(m, 2024, ty, "", "")
    \/ \E i \in BudgetInputs :
          /\ seq["budget_items"] < MaxRows
          /\ update(i[1], i[2], i[3], i[4], i[5])
    \/ \E i \in BudgetInputs : delete(i[1], i[2], i[4], i[5])
    \/ \E m \in Months : summarize(m, 2024)
    \/ \E m \in Months : compare_expenses(m, 2024)
    \/ accumulated_expenses(2024)
    \/ \E i \in TargetInputs :
          /\ seq["targets_items"] < MaxRows
          /\ add_target(i[1], i[2], i[3])
    \/ \E all \in BOOLEAN : list_targets(all)
    \/ \E id \in 1..(MaxRows + 1) : achieve_target(id)
    \/ \E id \in 1..(MaxRows + 1) : delete_target(id)
    \/ \E i \in SnapshotInputs :
          /\ seq["investment_snapshots"] < MaxRows
          /\ update_investment(i[1], i[2])
    \/ show_net_worth

Spec == Init /\ [][Next]_vars

\* The budget, the transactions and the two reports over them.
NextReports ==
    \/ \E i \in ReportTxnInputs :
          /\ seq["transactions"] < MaxTransactions
          /\ add_transaction(i[1], i[2], i[3], "Bank", i[4], "")
    \/ \E i \in ReportBudgetInputs :
          /\ seq["budget_items"] < MaxBudgetItems
          /\ update(i[1], i[2], i[3], i[4], i[5])
    \/ \E m \in Months, y \in Years : compare_expenses(m, y)
    \/ \E y \in Years : accumulated_expenses(y)

SpecReports == Init /\ [][NextReports]_vars

\* The budget alone.
NextBudget ==
    \/ \E i \in SummaryBudgetInputs :
          /\ seq["budget_items"] < MaxSummaryItems
          /\ update(i[1], i[2], i[3], i[4], i[5])
    \/ \E i \in SummaryBudgetInputs : delete(i[1], i[2], i[4], i[5])
    \/ \E m \in Months : summarize(m, 2024)

SpecBudget == Init /\ [][NextBudget]_vars

\* Savings transactions, investment snapshots and the net worth.
NextNetworth ==
    \/ \E i \in NetworthTxnInputs :
          /\ seq["transactions"] < MaxTransactions
          /\ add_transaction(i[1], i[2], i[3], "Bank", i[4], "")
    \/ \E id \in 1..MaxTransactions : delete_transaction(id)
    \/ \E i \in NetworthSnapshotInputs :
          /\ seq["investment_snapshots"] < MaxSnapshots
          /\ update_investment(i[1], i[2])
    \/ show_net_worth

SpecNetworth == Init /\ [][NextNetworth]_vars

\* The transactions, next to rows of the other three tables.
NextTransactions ==
    \/ \E i \in TxnInputs :
          /\ seq["transactions"] < MaxTransactions
          /\ add_transaction(i[1], i[2], i[3], "Bank", i[4], "")
    \/ \E id \in 1..(MaxTransactions + 1) : delete_transaction(id)
    \/ \E m \in Months, ty \in {"", "Expense"} :
          summarize_transactions(m, 2024, ty, "", "")
    \/ \E i \in BudgetInputs :
          /\ seq["budget_items"] < MaxRows
          /\ update(i[1], i[2], i[3], i[4], i[5])
    \/ \E i \in TargetInputs :
          /\ seq["targets_items"] < MaxRows
          /\ add_target(i[1], i[2], i[3])
    \/ \E i \in SnapshotInputs :
          /\ seq["investment_snapshots"] < MaxRows
          /\ update_investment(i[1], i[2])

SpecTransactions == Init /\ [][NextTransactions]_vars

\* The two tables whose rows are addressed by id.
NextIds ==
    \/ \E i \in TxnInputs :
          /\ seq["transactions"] < MaxTransactions
          /\ add_transaction(i[1], i[2], i[3], "Bank", i[4], "")
    \/ \E id \in 1..(MaxTransactions + 1) : delete_transaction(id)
    \/ \E i \in TargetInputs :
          /\ seq["targets_items"] < MaxTargets
          /\ add_target(i[1], i[2], i[3])
    \/ \E id \in 1..(MaxTargets + 1) : achieve_target(id)
    \/ \E id \in 1..(MaxTargets + 1) : delete_target(id)

SpecIds == Init /\ [][NextIds]_vars

\* The targets alone.
NextTargets ==
    \/ \E i \in TargetInputs :
          /\ seq["targets_items"] < MaxTargets
          /\ add_target(i[1], i[2], i[3])
    \/ \E all \in BOOLEAN : list_targets(all)
    \/ \E id \in 1..(MaxTargets + 1) : achieve_target(id)
    \/ \E id \in 1..(MaxTargets + 1) : delete_target(id)

SpecTargets == Init /\ [][NextTargets]_vars

-----------------------------------------------------------------------------
(* Properties                                                              *)

ReportCommands == {"reports month", "reports accumulated"}

\* The stored rows a report of outcome o is about, read off the store
\* without the report's own queries.
InPeriod(o, month, year) ==
    /\ year = o.year
    /\ (o.cmd = "reports month" => month = o.month)

ExpenseBudgetOf(o) ==
    {b \in budget_items : b.type = "Expense" /\ InPeriod(o, b.month, b.year)}

ExpenseTransactionsOf(o) ==
    {t \in transactions :
        t.type = "Expense" /\ InPeriod(o, t.date[2], t.date[1])}

RECURSIVE SumMagnitudes(_)
SumMagnitudes(rows) ==
    IF rows = {} THEN 0
    ELSE LET r == CHOOSE x \in rows : TRUE
         IN  (IF r.amount < 0 THEN -r.amount ELSE r.amount)
               + SumMagnitudes(rows \ {r})

RECURSIVE SumDifferences(_)
SumDifferences(rows) ==
    IF rows = <<>> THEN 0
    ELSE rows[1].difference + SumDifferences(Tail(rows))

\* C1: in a report, the actual spend shown for a category is the sum of the
\* absolute values of the amounts of the Expense transactions of that
\* category in the period.
C1_ActualIsSumOfMagnitudes ==
    (out.cmd \in ReportCommands /\ out.exit = 0) =>
        \A i \in 1..Len(out.rows) :
            out.rows[i].actual =
                SumMagnitudes({t \in ExpenseTransactionsOf(out) :
                                 t.category = out.rows[i].category})

\* C2: a report over a period with no Expense budget item and no Expense
\* transaction completes normally and is empty (here: on a store whose
\* tables exist).
C2_EmptyReportIsNotAnError ==
    (/\ out.cmd \in ReportCommands
     /\ SchemaTables \subseteq tables
     /\ ExpenseBudgetOf(out) = {}
     /\ ExpenseTransactionsOf(out) = {}) =>
        /\ out.exit = 0
        /\ out.rows = <<>>
        /\ out.total_budgeted = 0
        /\ out.total_actual = 0

\* C3: every stored Expense transaction has a non-positive amount.
C3_ExpensesStoredNonPositive ==
    \A t \in transactions : t.type = "Expense" => t.amount <= 0

\* C4: a delete or achieve command given an id that matches no stored row
\* reports "not found" and leaves the store unchanged.
C4_UnknownIdReportsNotFound ==
    [][(\/ /\ out'.cmd = "transactions delete"
           /\ \A t \in transactions : t.id # out'.id
        \/ /\ out'.cmd \in {"targets delete", "targets achieve"}
           /\ \A t \in targets_items : t.id # out'.id)
       => (out'.msg = "not found" /\ store' = store)]_vars

\* C5: after the first command of any group the four tables exist and no
\* query has met a missing table; a command that only re-runs the schema
\* creation leaves every stored row unchanged.
C5_SchemaCreatedOnFirstUse ==
    [][/\ SchemaTables \subseteq tables'
       /\ out'.msg # "OperationalError"
       /\ (out'.cmd \in {"budget summarize", "transactions summarize",
                         "targets list", "networth show"}
             => store' = store)]_vars

\* C6: the category rows of a report are exactly the union of the budgeted
\* and the actual categories of the period, each once, with 0 on the side
\* where the category is absent.
C6_RowsAreUnionOfCategories ==
    out.cmd \in ReportCommands =>
        LET budgeted == {b.category : b \in ExpenseBudgetOf(out)}
            actual == {t.category : t \in ExpenseTransactionsOf(out)}
        IN  /\ {out.rows[i].category : i \in 1..Len(out.rows)}
                  = budgeted \cup actual
            /\ \A i, j \in 1..Len(out.rows) :
                  out.rows[i].category = out.rows[j].category => i = j
            /\ \A i \in 1..Len(out.rows) :
                  /\ out.rows[i].category \notin budgeted
                        => out.rows[i].budgeted = 0
                  /\ out.rows[i].category \notin actual
                        => out.rows[i].actual = 0

\* A report with a category that is only budgeted and one that is only spent
C6_Witness ==
    /\ out.cmd \in ReportCommands
    /\ out.exit = 0
    /\ \E i, j \in 1..Len(out.rows) :
          /\ out.rows[i].category \notin
                {t.category : t \in ExpenseTransactionsOf(out)}
          /\ out.rows[j].category \notin
                {b.category : b \in ExpenseBudgetOf(out)}
          /\ out.rows[j].actual # 0
          /\ out.rows[i].budgeted # 0

\* C7: in a report the differences of the rows add up to total budgeted
\* minus total actual, and "under budget" is said exactly when that overall
\* difference is >= 0.
C7_DifferencesAddUp ==
    (out.cmd \in ReportCommands /\ out.exit = 0) =>
        /\ SumDifferences(out.rows) = out.total_budgeted - out.total_actual
        /\ out.overall = out.total_budgeted - out.total_actual
        /\ out.msg \in {"under budget", "over budget"}
        /\ out.msg = "under budget"
              <=> out.total_budgeted - out.total_actual >= 0

\* An over-budget report of two rows, one under and one over its budget
C7_Witness ==
    /\ out.cmd \in ReportCommands
    /\ out.exit = 0
    /\ out.msg = "over budget"
    /\ \E i, j \in 1..Len(out.rows) :
          out.rows[i].difference > 0 /\ out.rows[j].difference < 0

\* No two budget items with the same key
C8_UniqueKey ==
    \A a, b \in budget_items : SameKey(a, b) => a = b

\* What a budget update step leaves for its key
C8_UpdateStep ==
    out'.cmd = "budget update" =>
        LET same == {b \in budget_items' :
                        /\ b.type = out'.type
                        /\ b.category = out'.category
                        /\ b.month = out'.month
                        /\ b.year = out'.year}
            taken == \E b \in budget_items :
                        /\ b.type = out'.type
                        /\ b.category = out'.category
                        /\ b.month = out'.month
                        /\ b.year = out'.year
        IN  /\ Cardinality(same) = 1
            /\ \A b \in same : b.amount = out'.amount
            /\ taken => Cardinality(budget_items') = Cardinality(budget_items)

\* C8: the store holds at most one budget item per (type, category, month,
\* year); a budget update leaves exactly one row for its key, holding its
\* amount, and when the key was taken the number of rows does not grow.
C8_UpsertKeepsOneRow == []C8_UniqueKey /\ [][C8_UpdateStep]_vars

\* The second update of a key has replaced the row of the first
C8_Witness ==
    /\ out.cmd = "budget update"
    /\ out.amount = 10
    /\ seq["budget_items"] = 2
    /\ Cardinality(budget_items) = 1
    /\ \A b \in budget_items : b.id = 2 /\ b.amount = 10

\* Year, month and day of a stored date as one number
DayNumber(stored) == stored[1] * 10000 + stored[2] * 100 + stored[3]

\* C9: networth show reports the sum of the Savings/Cash transactions plus
\* the amount of the snapshot of the latest date.
C9_NetWorthIsSavingsPlusLatest ==
    out.cmd = "networth show" =>
        LET cash == {t \in transactions :
                        t.type = "Savings" /\ t.category = "Cash"}
        IN  \/ /\ investment_snapshots = {}
               /\ out.net_worth = SumAmounts(cash)
            \/ \E s \in investment_snapshots :
                  /\ \A o \in investment_snapshots :
                        DayNumber(o.snapshot_date) <= DayNumber(s.snapshot_date)
                  /\ out.investment_amount = s.amount
                  /\ out.net_worth = SumAmounts(cash) + s.amount

\* The latest snapshot was not the last one entered, and there are savings
C9_Witness ==
    /\ out.cmd = "networth show"
    /\ out.total_savings # 0
    /\ \E s, o \in investment_snapshots :
          /\ DayNumber(o.snapshot_date) < DayNumber(s.snapshot_date)
          /\ s.id < o.id
          /\ s.amount # o.amount

\* C10: with no snapshot stored, networth show ends without error, takes
\* the investment amount as 0, so that the net worth is the Savings/Cash sum
\* (0 when there is no such transaction), and says that there is no snapshot.
C10_NoSnapshotIsNotAnError ==
    (out.cmd = "networth show" /\ investment_snapshots = {}) =>
        LET cash == {t \in transactions :
                        t.type = "Savings" /\ t.category = "Cash"}
        IN  /\ out.exit = 0
            /\ out.msg = "No investment snapshots found"
            /\ out.investment_amount = 0
            /\ out.investment_date = <<>>
            /\ out.net_worth = SumAmounts(cash)
            /\ cash = {} => out.net_worth = 0

\* networth show on a store with savings and no snapshot
C10_Witness ==
    /\ out.cmd = "networth show"
    /\ investment_snapshots = {}
    /\ out.net_worth # 0

\* The days of the months of year y, January first
MonthLengths(y) ==
    <<31, IF (y % 4 = 0 /\ y % 100 # 0) \/ y % 400 = 0 THEN 29 ELSE 28,
      31, 30, 31, 30, 31, 31, 30, 31, 30, 31>>

\* <<d, m, y>> is a day of the calendar
CalendarDate(date) ==
    /\ date[3] >= 1 /\ date[3] <= 9999
    /\ date[2] >= 1 /\ date[2] <= 12
    /\ date[1] >= 1 /\ date[1] <= MonthLengths(date[3])[date[2]]

\* C11: transactions add and networth update-investment given a date that
\* is no calendar date end with the error message and exit code 1, and
\* leave every stored row as it was.
C11_InvalidDateChangesNothing ==
    [][(/\ out'.cmd \in {"transactions add", "networth update-investment"}
        /\ ~CalendarDate(out'.date))
       => /\ out'.exit = 1
          /\ out'.msg = "Invalid date format"
          /\ store' = store]_vars

\* An invalid date was refused on a store that holds rows
C11_Witness ==
    /\ out.cmd \in {"transactions add", "networth update-investment"}
    /\ out.exit = 1
    /\ out.date = Feb31
    /\ budget_items # {}
    /\ targets_items # {}

ReadOnlyCommands ==
    {"budget summarize", "transactions summarize", "reports month",
     "reports accumulated", "targets list", "networth show"}

\* C12: the read-only commands leave every stored budget item,
\* transaction, target and investment snapshot unchanged.
C12_ReadOnlyCommandsKeepStore ==
    [][out'.cmd \in ReadOnlyCommands => store' = store]_vars

\* A read-only command has run on a store with rows in every table
C12_Witness ==
    /\ out.cmd \in ReadOnlyCommands
    /\ budget_items # {}
    /\ transactions # {}
    /\ targets_items # {}
    /\ investment_snapshots # {}

RECURSIVE SumOfAmounts(_)
SumOfAmounts(rows) ==
    IF rows = {} THEN 0
    ELSE LET r == CHOOSE x \in rows : \A o \in rows : o.id <= x.id
         IN  SumOfAmounts(rows \ {r}) + r.amount

\* The stored budget items of type t of the month and year of outcome o
BudgetOfType(o, t) ==
    {b \in budget_items : b.type = t /\ b.month = o.month /\ b.year = o.year}

\* The subtotals, the surplus and its label that a summary is to show
SummaryFigures ==
    /\ \A t \in BudgetType :
          out.total_by_type[t] = SumOfAmounts(BudgetOfType(out, t))
    /\ out.surplus = SumOfAmounts(BudgetOfType(out, "Income"))
                       - SumOfAmounts(BudgetOfType(out, "Expense"))
                       - SumOfAmounts(BudgetOfType(out, "Savings"))
    /\ out.msg = IF out.surplus >= 0 THEN "Surplus" ELSE "Deficit"

\* C13 as stated: budget summarize reports the three subtotals (0 for a
\* type without items) and the surplus Income - Expense - Savings, labelled
\* Surplus when >= 0 and Deficit otherwise, for every month and year.
C13_SummaryAlwaysShowsFigures ==
    out.cmd = "budget summarize" => SummaryFigures

\* C13 as amended: budget summarize reports the subtotals and the labelled
\* surplus when at least one budget item is stored for the month and year;
\* when none is stored it prints only that no budget items were found.
C13_SummaryShowsFiguresUnlessEmpty ==
    out.cmd = "budget summarize" =>
        IF \E b \in budget_items : b.month = out.month /\ b.year = out.year
        THEN SummaryFigures
        ELSE out.msg = "No budget items found" /\ out.exit = 0

\* A summary with items of all three types that ends in a deficit
C13_Witness ==
    /\ out.cmd = "budget summarize"
    /\ out.msg = "Deficit"
    /\ \A t \in BudgetType : out.total_by_type[t] # 0

\* No two snapshots of the same date
C14_UniqueDate ==
    \A a, b \in investment_snapshots :
        a.snapshot_date = b.snapshot_date => a = b

\* What an accepted update leaves: one snapshot for its date, holding its
\* amount, and the snapshots of the other dates as they were
C14_UpdateStep ==
    (out'.cmd = "networth update-investment" /\ out'.exit = 0) =>
        LET day == <<out'.date[3], out'.date[2], out'.date[1]>>
        IN  /\ \E s \in investment_snapshots' :
                  /\ s.snapshot_date = day
                  /\ s.amount = out'.amount
                  /\ \A o \in investment_snapshots' :
                        o.snapshot_date = day => o = s
            /\ \A o \in investment_snapshots :
                  o.snapshot_date # day => o \in investment_snapshots'
            /\ \A o \in investment_snapshots' :
                  o.snapshot_date # day => o \in investment_snapshots

\* C14: there is at most one investment snapshot per date, and the snapshot
\* of a date holds the amount of the most recent update given for that date.
C14_SnapshotPerDateIsLatestUpdate ==
    []C14_UniqueDate /\ [][C14_UpdateStep]_vars

\* The second update of a date has replaced the amount of the first
C14_Witness ==
    /\ out.cmd = "networth update-investment"
    /\ out.exit = 0
    /\ out.amount = 80
    /\ seq["investment_snapshots"] = 2
    /\ \A s \in investment_snapshots : s.id = 2 /\ s.amount = 80
    /\ investment_snapshots # {}

\* C15: every stored target has a priority from 1 to 5.
C15_PriorityInRange ==
    \A t \in targets_items : t.priority >= 1 /\ t.priority <= 5

\* What one command may do to the targets: add one unpurchased target under
\* a new id, mark the target of the given id purchased, or remove the
\* target of the given id; name, price and priority of a target stay.
C16_TargetStep ==
    /\ \A t \in targets_items :
          \/ t \in targets_items'
          \/ /\ out'.cmd = "targets achieve"
             /\ out'.id = t.id
             /\ t.purchased = 0
             /\ [id |-> t.id, item_name |-> t.item_name, price |-> t.price,
                 priority |-> t.priority, purchased |-> 1] \in targets_items'
          \/ /\ out'.cmd = "targets delete"
             /\ out'.id = t.id
             /\ \A n \in targets_items' : n.id # t.id
    /\ \A n \in targets_items' :
          \/ \E t \in targets_items : t.id = n.id
          \/ out'.cmd = "targets add" /\ n.purchased = 0

\* C16: a target is created unpurchased; the only change to a stored target
\* is targets achieve setting purchased, so a purchased target stays
\* purchased until targets delete removes it, and its name, price and
\* priority never change.
C16_TargetsOnlyBecomePurchased == [][C16_TargetStep]_vars

\* A purchased target has stayed purchased while another one was achieved
C16_Witness ==
    /\ out.cmd = "targets achieve"
    /\ out.msg = "marked as achieved"
    /\ \E t \in targets_items : t.purchased = 1 /\ t.id # out.id
    /\ \E t \in targets_items : t.purchased = 1 /\ t.id = out.id

\* What one command may do to the transactions: add one row under an id
\* that no stored row has, or remove the row of the given id and nothing
\* else; every other stored row stays as it is.
C17_TransactionStep ==
    /\ \A t \in transactions :
          \/ t \in transactions'
          \/ /\ out'.cmd = "transactions delete"
             /\ out'.id = t.id
    /\ \A n \in transactions' \ transactions :
          /\ out'.cmd = "transactions add"
          /\ \A t \in transactions : t.id # n.id
    /\ out'.cmd = "transactions delete" =>
          /\ transactions' = {t \in transactions : t.id # out'.id}
          /\ budget_items' = budget_items
          /\ targets_items' = targets_items
          /\ investment_snapshots' = investment_snapshots

\* C17: no command changes a stored transaction; transactions delete removes
\* exactly the transaction of the given id and leaves every other
\* transaction and all budget items, targets and snapshots unchanged.
C17_TransactionsAreImmutable == [][C17_TransactionStep]_vars

\* A delete has removed one of two transactions, next to other rows
C17_Witness ==
    /\ out.cmd = "transactions delete"
    /\ out.id <= seq["transactions"]
    /\ transactions # {}
    /\ \A t \in transactions : t.id # out.id
    /\ budget_items # {}
    /\ targets_items # {}
    /\ investment_snapshots # {}

\* No two stored rows of a table share an id, and no stored id is above the
\* counter of its table
C18_UniqueIds ==
    /\ \A a, b \in transactions : a.id = b.id => a = b
    /\ \A a, b \in targets_items : a.id = b.id => a = b
    /\ \A t \in transactions : t.id <= seq["transactions"]
    /\ \A t \in targets_items : t.id <= seq["targets_items"]

\* An added row gets an id above every id its table has handed out so far,
\* and the record of the ids handed out never goes back
C18_IdStep ==
    /\ seq'["transactions"] >= seq["transactions"]
    /\ seq'["targets_items"] >= seq["targets_items"]
    /\ out'.cmd = "transactions add" =>
          \A n \in transactions' \ transactions : n.id > seq["transactions"]
    /\ out'.cmd = "targets add" =>
          \A n \in targets_items' \ targets_items :
              n.id > seq["targets_items"]
    /\ out'.cmd \in {"transactions delete"} =>
          \A n \in transactions \ transactions' : n.id = out'.id
    /\ out'.cmd \in {"targets delete", "targets achieve"} =>
          \A n \in targets_items \ targets_items' : n.id = out'.id

\* C18: transaction ids and target ids are unique among the stored rows and
\* grow with each add; an id freed by a delete is not given to a later row,
\* so a delete or achieve with an old id does not reach a later row.
C18_IdsAreNeverReused == []C18_UniqueIds /\ [][C18_IdStep]_vars

\* In both tables id 1 was freed and the row added after that got id 2
C18_Witness ==
    /\ out.cmd = "targets add"
    /\ {t.id : t \in targets_items} = {2}
    /\ {t.id : t \in transactions} = {2}

====
